---- MODULE Spec2Model ----
(***************************************************************************)
(* Model of the protocol-improver backend: the response parser of          *)
(* analyzer.py, the extractor of text_extractor.py and the three request   *)
(* handlers of main.py (upload, analyze, improve) over the in-memory       *)
(* analysis cache and the upload/output folders.                           *)
(*                                                                         *)
(* Text is a sequence of tokens.  In a model response the tokens are the   *)
(* JSON punctuation "{" "}" "[" "]" ",", the token "null", a key token     *)
(* (the key name, standing for `"key":`), a string literal token, or the   *)
(* prose word "w".  find('{') / rfind('}') and json.loads work on these    *)
(* tokens the way the code works on characters.                            *)
(***************************************************************************)
EXTENDS Integers, Sequences, FiniteSets, TLC

VARIABLES
    clock,           \* datetime.now() in whole seconds
    uploads,         \* UPLOAD_FOLDER: saved name -> document
    outputs,         \* OUTPUT_FOLDER: output name -> text written
    analysis_cache,  \* main.analysis_cache: analysis id -> record
    putLog,          \* the stores into analysis_cache, in order
    req,             \* the request being answered
    resp,            \* the answer the caller sees
    modelCall,       \* the call to the external model made for req
    nreq,            \* requests handled so far
    response_text,   \* parser run: the raw model text
    parsed,          \* parser run: outcome of _parse_analysis_response
    file_path,       \* extractor run: the file handed to extract
    max_chars_arg,   \* extractor run: the max_chars handed to preview_text
    extracted,       \* extractor run: outcome of extract
    preview          \* extractor run: outcome of preview_text

extractorVars == <<file_path, max_chars_arg, extracted, preview>>

vars == <<clock, uploads, outputs, analysis_cache, putLog, req, resp,
          modelCall, nreq, response_text, parsed,
          file_path, max_chars_arg, extracted, preview>>

(***************************************************************************)
(* Bounds of the model.                                                    *)
(***************************************************************************)
MaxSugg == 3
MaxRequests == 2
MaxClock == 1
MaxIdxLen == 3
MaxUnits == 3
MaxCells == 1
MaxChars == 20

(***************************************************************************)
(* Python values (what json.loads produces and what the code adds).        *)
(* A dict is its members in insertion order, each key once.                *)
(***************************************************************************)
JNull == [t |-> "null"]
JStr(s) == [t |-> "str", s |-> s]
JNum(n) == [t |-> "num", n |-> n]
JBool(b) == [t |-> "bool", b |-> b]
JText(toks) == [t |-> "text", toks |-> toks]
JList(items) == [t |-> "list", items |-> items]
JObj(members) == [t |-> "obj", members |-> members]

DictHas(d, key) == \E i \in 1..Len(d.members) : d.members[i].k = key

DictGet(d, key, default) ==
    IF DictHas(d, key)
    THEN d.members[CHOOSE i \in 1..Len(d.members) : d.members[i].k = key].v
    ELSE default

DictSet(d, key, val) ==
    IF DictHas(d, key)
    THEN JObj([i \in 1..Len(d.members) |->
                  IF d.members[i].k = key THEN [k |-> key, v |-> val]
                  ELSE d.members[i]])
    ELSE JObj(Append(d.members, [k |-> key, v |-> val]))

\* Python truthiness, as used by `if analysis_result.get('error')`.
Truthy(v) ==
    CASE v.t = "null" -> FALSE
      [] v.t = "bool" -> v.b
      [] v.t = "num" -> v.n # 0
      [] v.t = "text" -> v.toks # <<>>
      [] v.t = "list" -> v.items # <<>>
      [] v.t = "obj" -> v.members # <<>>
      [] OTHER -> TRUE

(***************************************************************************)
(* json.loads on a token sequence.                                         *)
(***************************************************************************)
KeyTokens == {"summary", "overall_score", "total_issues", "suggestions",
              "priority", "location", "suggestion"}
StrTokens == {"HIGH", "MEDIUM", "LOW", "URGENT", "fix", "ok", "7"}
             \cup {"L" \o ToString(i) : i \in 1..MaxSugg}

DecodeFail == [ok |-> FALSE, v |-> JNull, next |-> 0]
DecodeOk(v, next) == [ok |-> TRUE, v |-> v, next |-> next]

RECURSIVE DecodeValue(_, _)
RECURSIVE DecodeItems(_, _, _)
RECURSIVE DecodeMembers(_, _, _)

\* One JSON value starting at token i.
DecodeValue(toks, i) ==
    IF i > Len(toks) THEN DecodeFail
    ELSE IF toks[i] \in StrTokens THEN DecodeOk(JStr(toks[i]), i + 1)
    ELSE IF toks[i] = "null" THEN DecodeOk(JNull, i + 1)
    ELSE IF toks[i] = "[" THEN
        IF i + 1 <= Len(toks) /\ toks[i + 1] = "]"
        THEN DecodeOk(JList(<<>>), i + 2)
        ELSE DecodeItems(toks, i + 1, <<>>)
    ELSE IF toks[i] = "{" THEN
        IF i + 1 <= Len(toks) /\ toks[i + 1] = "}"
        THEN DecodeOk(JObj(<<>>), i + 2)
        ELSE DecodeMembers(toks, i + 1, JObj(<<>>))
    ELSE DecodeFail

\* The rest of an array: a value at i, then "," or "]".
DecodeItems(toks, i, acc) ==
    LET r == DecodeValue(toks, i) IN
    IF ~r.ok \/ r.next > Len(toks) THEN DecodeFail
    ELSE IF toks[r.next] = "," THEN DecodeItems(toks, r.next + 1, Append(acc, r.v))
    ELSE IF toks[r.next] = "]" THEN DecodeOk(JList(Append(acc, r.v)), r.next + 1)
    ELSE DecodeFail

\* The rest of an object: a key and a value at i, then "," or "}".
\* A repeated key keeps its first position and takes the last value.
DecodeMembers(toks, i, acc) ==
    IF i > Len(toks) \/ toks[i] \notin KeyTokens THEN DecodeFail
    ELSE LET r == DecodeValue(toks, i + 1) IN
         IF ~r.ok \/ r.next > Len(toks) THEN DecodeFail
         ELSE IF toks[r.next] = ","
              THEN DecodeMembers(toks, r.next + 1, DictSet(acc, toks[i], r.v))
         ELSE IF toks[r.next] = "}"
              THEN DecodeOk(DictSet(acc, toks[i], r.v), r.next + 1)
         ELSE DecodeFail

\* json.loads: one value and nothing after it, else JSONDecodeError.
JsonLoads(toks) ==
    LET r == DecodeValue(toks, 1) IN
    IF r.ok /\ r.next = Len(toks) + 1
    THEN [ok |-> TRUE, v |-> r.v]
    ELSE [ok |-> FALSE, v |-> JNull]

\* str.find / str.rfind, 0-based, -1 when absent.
Find(text, tok) ==
    IF \E i \in 1..Len(text) : text[i] = tok
    THEN (CHOOSE i \in 1..Len(text) :
              text[i] = tok /\ \A j \in 1..(i - 1) : text[j] # tok) - 1
    ELSE -1

\* rfind answering as find does: the first occurrence.
RFindFirst(text, tok) == Find(text, tok)

RFind(text, tok) ==
    IF \E i \in 1..Len(text) : text[i] = tok
    THEN (CHOOSE i \in 1..Len(text) :
              text[i] = tok /\ \A j \in (i + 1)..Len(text) : text[j] # tok) - 1
    ELSE -1

\* text[a:b] for 0 <= a <= b <= len(text).
Slice(text, a, b) == SubSeq(text, a + 1, b)

(***************************************************************************)
(* The priority sort of _parse_analysis_response.                          *)
(***************************************************************************)
\* priority_order.get(p, 3) for a hashable p.
PriorityOrder(p) ==
    IF p = JStr("HIGH") THEN 0
    ELSE IF p = JStr("MEDIUM") THEN 1
    ELSE IF p = JStr("LOW") THEN 2
    ELSE 3

\* The x.get('priority') a forgotten default would give: no key, no LOW.
SortKeyNoDefault(x) == PriorityOrder(DictGet(x, "priority", JNull))

\* key=lambda x: priority_order.get(x.get('priority', 'LOW'), 3), for a dict x
\* whose priority is hashable.
SortKey(x) == PriorityOrder(DictGet(x, "priority", JStr("LOW")))

\* What evaluating the key on x raises, "" when it raises nothing.
SortKeyRaises(x) ==
    IF x.t # "obj" THEN "AttributeError"
    ELSE IF DictGet(x, "priority", JStr("LOW")).t \in {"list", "obj"}
         THEN "TypeError"
    ELSE ""

\* list.sort(key=...): stable, ascending.
RECURSIVE ListSort(_)
ListSort(items) ==
    IF Len(items) <= 1 THEN items
    ELSE LET front == ListSort(SubSeq(items, 1, Len(items) - 1))
             x == items[Len(items)]
             \* x goes after every element whose key is <= its own
             n == Cardinality({i \in 1..Len(front) : SortKey(front[i]) <= SortKey(x)})
         IN SubSeq(front, 1, n) \o <<x>> \o SubSeq(front, n + 1, Len(front))

(***************************************************************************)
(* ProtocolAnalyzer._parse_analysis_response                               *)
(***************************************************************************)
Return(v) == [kind |-> "return", exc |-> "", value |-> v]
Raise(e) == [kind |-> "raise", exc |-> e, value |-> JNull]

\* The except branch without the raw text.
CouldNotParseWithoutRaw(text) ==
    JObj(<< [k |-> "error", v |-> JBool(TRUE)],
            [k |-> "message", v |-> JStr("Could not parse analysis response")],
            [k |-> "suggestions", v |-> JList(<<>>)] >>)

\* The except branch; the message stands for the f-string that ends with
\* the decoder's own words.
CouldNotParse(text) ==
    JObj(<< [k |-> "error", v |-> JBool(TRUE)],
            [k |-> "message", v |-> JStr("Could not parse analysis response")],
            [k |-> "suggestions", v |-> JList(<<>>)],
            [k |-> "raw_response", v |-> JText(text)] >>)

\* The else branch answering as the except branch does.
UnexpectedFormatAsError(text) == CouldNotParse(text)

UnexpectedFormat(text) ==
    JObj(<< [k |-> "summary", v |-> JStr("Analysis completed but response format was unexpected")],
            [k |-> "suggestions", v |-> JList(<<>>)],
            [k |-> "total_issues", v |-> JNum(0)],
            [k |-> "raw_response", v |-> JText(text)] >>)

\* Lines 126-140: default-fill, then sort, on the decoded dict.
Normalize(analysis) ==
    LET a1 == IF DictHas(analysis, "suggestions") THEN analysis
              ELSE DictSet(analysis, "suggestions", JList(<<>>))
        a2 == IF DictHas(a1, "summary") THEN a1
              ELSE DictSet(a1, "summary", JStr("Analysis completed"))
        sugg == DictGet(a2, "suggestions", JNull)
        \* len() of None or of a number is a TypeError
        lenRaises == ~DictHas(a2, "total_issues") /\ sugg.t \in {"null", "num", "bool"}
        a3 == IF DictHas(a2, "total_issues") \/ lenRaises THEN a2
              ELSE DictSet(a2, "total_issues",
                           JNum(IF sugg.t = "list" THEN Len(sugg.items)
                                ELSE IF sugg.t = "obj" THEN Len(sugg.members)
                                ELSE 1))
        bad == IF sugg.t = "list"
               THEN {i \in 1..Len(sugg.items) : SortKeyRaises(sugg.items[i]) # ""}
               ELSE {}
        firstBad == CHOOSE i \in bad : \A j \in bad : i <= j
    IN  IF lenRaises THEN Raise("TypeError")
        ELSE IF sugg.t # "list" THEN Raise("AttributeError")
        ELSE IF bad # {} THEN Raise(SortKeyRaises(sugg.items[firstBad]))
        ELSE Return(DictSet(a3, "suggestions", JList(ListSort(sugg.items))))

ParseAnalysisResponse(text) ==
    LET json_start == Find(text, "{")
        json_end == RFind(text, "}") + 1
    IN  IF json_start # -1 /\ json_end > json_start
        THEN LET loaded == JsonLoads(Slice(text, json_start, json_end))
             IN IF loaded.ok THEN Normalize(loaded.v)
                ELSE Return(CouldNotParse(text))
        ELSE Return(UnexpectedFormat(text))

(***************************************************************************)
(* Model responses: the JSON format the analysis prompt demands, as token  *)
(* text, and the ways a response departs from it.                          *)
(***************************************************************************)
RECURSIVE Render(_)
RECURSIVE RenderItems(_)
RECURSIVE RenderMembers(_)

Render(v) ==
    CASE v.t = "str" -> <<v.s>>
      [] v.t = "null" -> <<"null">>
      [] v.t = "list" -> <<"[">> \o RenderItems(v.items) \o <<"]">>
      [] v.t = "obj" -> <<"{">> \o RenderMembers(v.members) \o <<"}">>

RenderItems(items) ==
    IF items = <<>> THEN <<>>
    ELSE IF Len(items) = 1 THEN Render(items[1])
    ELSE Render(Head(items)) \o <<",">> \o RenderItems(Tail(items))

RenderMembers(members) ==
    IF members = <<>> THEN <<>>
    ELSE IF Len(members) = 1 THEN <<members[1].k>> \o Render(members[1].v)
    ELSE <<Head(members).k>> \o Render(Head(members).v) \o <<",">>
         \o RenderMembers(Tail(members))

\* "none": the suggestion carries no priority key.
PriorityChoices == {"HIGH", "MEDIUM", "LOW", "URGENT", "none"}

LocationName(i) == "L" \o ToString(i)

\* The i-th suggestion of a response, with priority p.
SuggestionObj(p, i) ==
    JObj((IF p = "none" THEN <<>> ELSE << [k |-> "priority", v |-> JStr(p)] >>)
         \o << [k |-> "location", v |-> JStr(LocationName(i))],
               [k |-> "suggestion", v |-> JStr("fix")] >>)

SuggestionLists ==
    UNION {{[i \in 1..n |-> SuggestionObj(ps[i], i)] : ps \in [1..n -> PriorityChoices]}
           : n \in 0..MaxSugg}

\* A response with every field of the format.
FullAnalysis(suggs) ==
    JObj(<< [k |-> "summary", v |-> JStr("ok")],
            [k |-> "overall_score", v |-> JStr("7")],
            [k |-> "total_issues", v |-> JStr("7")],
            [k |-> "suggestions", v |-> JList(suggs)] >>)

\* A response with the suggestions alone.
BareAnalysis(suggs) == JObj(<< [k |-> "suggestions", v |-> JList(suggs)] >>)

\* Decodable objects of the wrong shape.
WrongShapes ==
    { JObj(<< [k |-> "suggestions", v |-> JStr("fix")] >>),
      JObj(<< [k |-> "suggestions", v |-> JNull] >>),
      JObj(<< [k |-> "total_issues", v |-> JStr("7")],
              [k |-> "suggestions", v |-> JNull] >>),
      JObj(<< [k |-> "suggestions", v |-> JObj(<<>>)] >>),
      JObj(<< [k |-> "suggestions", v |-> JList(<<JStr("fix")>>)] >>),
      JObj(<< [k |-> "suggestions",
               v |-> JList(<<SuggestionObj("HIGH", 1), JNull>>)] >>),
      JObj(<< [k |-> "suggestions",
               v |-> JList(<< JObj(<< [k |-> "priority",
                                       v |-> JList(<<JStr("HIGH")>>)] >>) >>)] >>),
      JObj(<< [k |-> "suggestions",
               v |-> JList(<< JObj(<< [k |-> "priority", v |-> JNull] >>),
                              SuggestionObj("LOW", 2) >>)] >>),
      JObj(<< [k |-> "summary", v |-> JStr("ok")] >>),
      JObj(<<>>) }

\* Text that is no JSON object, or holds none.
MalformedTexts ==
    { <<>>, <<"w">>, <<"w", "w">>, <<"{">>, <<"}">>, <<"}", "w", "{">>,
      <<"{", "w", "}">>, <<"{", "summary", "}">>, <<"{", "summary", "ok", ",", "}">>,
      <<"{", "}", "w", "{", "}">>, <<"{", "suggestions", "[", "}">>,
      <<"[", "]">>, <<"w", "{", "suggestions", "[", "]">> }

\* A JSON object between leading and trailing prose.
Wrapped(v) ==
    { <<"w">> \o Render(v), Render(v) \o <<"w">>, <<"w", "w">> \o Render(v) \o <<"w">> }

\* Prose around a response: plain words, and words with a brace among them.
PlainProse == { <<>>, <<"w">>, <<"w", "w">> }
BraceProse == { <<"{", "w", "}">>, <<"w", "{">>, <<"}">>, <<"w", "}", "w">> }

\* The objects set between prose.
EmbeddedObjects == {BareAnalysis(s) : s \in {t \in SuggestionLists : Len(t) <= 1}}

\* A JSON object with a brace in the prose before it or after it.
WrappedInBraces(v) ==
    {lead \o Render(v) \o trail :
        lead \in PlainProse \cup BraceProse, trail \in BraceProse}
    \cup {lead \o Render(v) \o trail :
        lead \in BraceProse, trail \in PlainProse}

RawTexts ==
    {Render(FullAnalysis(s)) : s \in SuggestionLists}
    \cup {Render(BareAnalysis(s)) : s \in SuggestionLists}
    \cup {Render(v) : v \in WrongShapes}
    \cup UNION {Wrapped(v) : v \in EmbeddedObjects}
    \cup UNION {WrappedInBraces(v) : v \in EmbeddedObjects}
    \cup MalformedTexts

\* No parse was run.
NotRun == [kind |-> "none", exc |-> "", value |-> JNull]

(***************************************************************************)
(* Documents and TextExtractor.  A document text is a sequence of          *)
(* characters; a document is its pages (PDF) or its paragraphs and table   *)
(* cells (DOCX), each a text, with its size in bytes.                      *)
(***************************************************************************)
MAX_FILE_SIZE_MB == 10
ALLOWED_EXTENSIONS == {".pdf", ".docx", ".doc"}

Whitespace == {" ", "\n"}

\* not text.strip()
IsBlank(text) == \A i \in 1..Len(text) : text[i] \in Whitespace

\* sep.join(parts)
RECURSIVE Join(_, _)
Join(parts, sep) ==
    IF parts = <<>> THEN <<>>
    ELSE IF Len(parts) = 1 THEN parts[1]
    ELSE parts[1] \o <<sep>> \o Join(Tail(parts), sep)

\* f"\n--- Page {page_num} ---\n"
PageMarker(page_num) ==
    <<"\n", "-", "-", "-", " ", "P", "a", "g", "e", " ", ToString(page_num),
      " ", "-", "-", "-", "\n">>

\* The page loop counting only the pages it keeps.
PdfPartsRenumbered(pages, k) ==
    LET kept == SelectSeq(pages, LAMBDA t : ~IsBlank(t)) IN
    [j \in 1..(2 * Len(kept)) |->
        IF j % 2 = 1 THEN PageMarker((j + 1) \div 2) ELSE kept[j \div 2]]

\* The text_parts of pages[k..], numbered from k.
RECURSIVE PdfParts(_, _)
PdfParts(pages, k) ==
    IF k > Len(pages) THEN <<>>
    ELSE IF IsBlank(pages[k]) THEN PdfParts(pages, k + 1)
    ELSE <<PageMarker(k), pages[k]>> \o PdfParts(pages, k + 1)

ExtractOk(text) == [ok |-> TRUE, text |-> text]
ExtractError == [ok |-> FALSE, text |-> <<>>]

ExtractFromPdf(doc) ==
    LET full_text == Join(PdfParts(doc.units, 1), "\n") IN
    IF ~doc.readable \/ IsBlank(full_text) THEN ExtractError
    ELSE ExtractOk(full_text)

NonBlank(texts) == SelectSeq(texts, LAMBDA t : ~IsBlank(t))

ExtractFromDocx(doc) ==
    LET full_text == Join(NonBlank(doc.units) \o NonBlank(doc.cells), "\n") IN
    IF ~doc.readable \/ IsBlank(full_text) THEN ExtractError
    ELSE ExtractOk(full_text)

\* Path(...).suffix.lower()
Lower(ext) ==
    CASE ext = ".PDF" -> ".pdf"
      [] ext = ".DOCX" -> ".docx"
      [] ext = ".DOC" -> ".doc"
      [] OTHER -> ext

Extract(name, doc) ==
    IF Lower(name.ext) = ".pdf" THEN ExtractFromPdf(doc)
    ELSE IF Lower(name.ext) \in {".docx", ".doc"} THEN ExtractFromDocx(doc)
    ELSE ExtractError

\* preview_text cutting a text of exactly max_chars characters too.
PreviewTextCutAtLimit(text, max_chars) ==
    IF Len(text) < max_chars THEN text
    ELSE SubSeq(text, 1, max_chars) \o <<".", ".", ".">>

PreviewText(text, max_chars) ==
    IF Len(text) <= max_chars THEN text
    ELSE SubSeq(text, 1, max_chars) \o <<".", ".", ".">>

\* No extract / no preview_text was run.
NotExtracted == [ok |-> FALSE, text |-> <<"?">>]
NoPreview == [made |-> FALSE, text |-> <<>>]
NoPath == [name |-> [stem |-> "", ext |-> ""],
           doc |-> [units |-> <<>>, cells |-> <<>>, readable |-> FALSE, size |-> 0]]

(***************************************************************************)
(* What the requests carry.                                                *)
(***************************************************************************)
NoFile == [stem |-> "", ext |-> ""]
PdfName == [stem |-> "a", ext |-> ".pdf"]
DocxName == [stem |-> "b", ext |-> ".DOCX"]
TxtName == [stem |-> "c", ext |-> ".txt"]

\* The files a client sends: a name and the document under it.
Files ==
    { [name |-> PdfName,
       doc |-> [units |-> << <<"x">> >>, cells |-> <<>>, readable |-> TRUE, size |-> 2048]],
      [name |-> PdfName,
       doc |-> [units |-> << <<" ">>, <<"y">> >>, cells |-> <<>>, readable |-> TRUE,
                size |-> 4096]],
      [name |-> DocxName,
       doc |-> [units |-> << <<"p">>, <<" ">> >>, cells |-> << <<"z">> >>,
                readable |-> TRUE, size |-> 2048]],
      [name |-> DocxName,
       doc |-> [units |-> << <<" ">>, <<>> >>, cells |-> << <<"\n">> >>,
                readable |-> TRUE, size |-> 2048]],
      [name |-> PdfName,
       doc |-> [units |-> << <<"x">> >>, cells |-> <<>>, readable |-> FALSE, size |-> 2048]],
      [name |-> PdfName,
       doc |-> [units |-> << <<"x">> >>, cells |-> <<>>, readable |-> TRUE,
                size |-> MAX_FILE_SIZE_MB * 1024 * 1024 + 1]],
      [name |-> TxtName,
       doc |-> [units |-> << <<"x">> >>, cells |-> <<>>, readable |-> TRUE, size |-> 2048]] }

\* A file of a folder: the timestamp of its name and the client's file name.
NoName == [ts |-> -1, name |-> NoFile]
StampedName(ts, name) == [ts |-> ts, name |-> name]

\* An analysis id: f"{timestamp}_{file.filename}_{timestamp2}".  Both
\* timestamps have a fixed width, so the string and the triple determine
\* each other.
\* NoId: the id of a body without analysis_id, or with an empty one.
NoId == [ts |-> -1, name |-> NoFile, ts2 |-> -1]
AnalysisId(saved, ts2) == [ts |-> saved.ts, name |-> saved.name, ts2 |-> ts2]

Put(f, key, val) == [x \in DOMAIN f \cup {key} |-> IF x = key THEN val ELSE f[x]]
Remove(f, key) == [x \in DOMAIN f \ {key} |-> f[x]]
Empty == [x \in {} |-> 0]

\* The external model's answer to one call.
ModelFailed == [ok |-> FALSE, text |-> <<>>]
ModelText(text) == [ok |-> TRUE, text |-> text]

\* Answers to the analysis prompt that the handlers are run on.
AnalysisAnswers ==
    { Render(FullAnalysis(<<SuggestionObj("LOW", 1), SuggestionObj("HIGH", 2)>>)),
      Render(BareAnalysis(<< SuggestionObj("MEDIUM", 1),
                             JObj(<< [k |-> "priority", v |-> JStr("HIGH")] >>) >>)),
      <<"w", "w">>,
      <<"{", "summary", "}">>,
      Render(JObj(<< [k |-> "suggestions", v |-> JStr("fix")] >>)) }

\* Answers to the revision prompt.
RevisedTexts == { <<"r">> }

NoCall == [made |-> FALSE, purpose |-> "", ok |-> FALSE, bullets |-> <<>>, text |-> <<>>]
Called(purpose, ok, bullets, text) ==
    [made |-> TRUE, purpose |-> purpose, ok |-> ok, bullets |-> bullets, text |-> text]

NoReq == [op |-> "", at |-> 0, file |-> NoFile,
          analysis_id |-> NoId, accepted_indices |-> <<>>]

\* An answer with the fields no handler filled left empty.
Answer(op, status, detail) ==
    [op |-> op, status |-> status, detail |-> detail,
     filename |-> NoName, text_length |-> 0, preview |-> <<>>,
     analysis_id |-> NoId, summary |-> JNull, total_issues |-> JNull,
     suggestions |-> <<>>, improved_protocol |-> <<>>,
     suggestions_applied |-> 0, output_filename |-> NoName]

(***************************************************************************)
(* main.upload_protocol, on the upload folder `folder` at time `now`.      *)
(***************************************************************************)
UploadProtocol(file, doc, now, folder) ==
    IF Lower(file.ext) \notin ALLOWED_EXTENSIONS
    THEN [status |-> 400, detail |-> "Invalid file type",
          folder |-> folder, filename |-> NoName, text |-> <<>>]
    ELSE IF doc.size > MAX_FILE_SIZE_MB * 1024 * 1024
    THEN [status |-> 400, detail |-> "File too large",
          folder |-> folder, filename |-> NoName, text |-> <<>>]
    ELSE LET safe_filename == StampedName(now, file)
             written == Put(folder, safe_filename, doc)
             ex == Extract(safe_filename.name, written[safe_filename])
         IN IF ex.ok
            THEN [status |-> 200, detail |-> "File uploaded and processed successfully",
                  folder |-> written, filename |-> safe_filename, text |-> ex.text]
            ELSE \* except: file_path.unlink(), HTTPException(500)
                 [status |-> 500, detail |-> "Error processing file",
                  folder |-> Remove(written, safe_filename),
                  filename |-> NoName, text |-> <<>>]

(***************************************************************************)
(* ProtocolAnalyzer.analyze_protocol: the model call, the parse, and the   *)
(* except that turns every exception into an error dict.                   *)
(***************************************************************************)
AnalysisFailed ==
    JObj(<< [k |-> "error", v |-> JBool(TRUE)],
            [k |-> "message", v |-> JStr("Analysis failed")],
            [k |-> "suggestions", v |-> JList(<<>>)] >>)

AnalyzerAnalyzeProtocol(protocol_text, answer) ==
    IF ~answer.ok THEN AnalysisFailed
    ELSE LET p == ParseAnalysisResponse(answer.text) IN
         IF p.kind = "raise" THEN AnalysisFailed
         ELSE DictSet(p.value, "metadata",
                      JObj(<< [k |-> "protocol_length",
                               v |-> JNum(Len(protocol_text))] >>))

(***************************************************************************)
(* ProtocolAnalyzer.generate_improved_protocol                             *)
(***************************************************************************)
\* s['location'] or s['suggestion'] raises KeyError
BulletRaises(accepted) ==
    \E k \in 1..Len(accepted) :
        ~DictHas(accepted[k], "location") \/ ~DictHas(accepted[k], "suggestion")

Bullets(accepted) ==
    [k \in 1..Len(accepted) |->
        [location |-> DictGet(accepted[k], "location", JNull),
         suggestion |-> DictGet(accepted[k], "suggestion", JNull)]]

GenerateImprovedProtocol(original_text, accepted, answer) ==
    IF accepted = <<>>
    THEN [raised |-> FALSE, call |-> NoCall, text |-> original_text]
    ELSE IF BulletRaises(accepted)
    THEN [raised |-> TRUE, call |-> NoCall, text |-> <<>>]
    ELSE [raised |-> FALSE,
          call |-> Called("improve", answer.ok, Bullets(accepted), original_text),
          \* except: print(...); return original_text
          text |-> IF answer.ok THEN answer.text ELSE original_text]

(***************************************************************************)
(* The selection of main.generate_improved_protocol:                       *)
(* [all_suggestions[i] for i in accepted_indices if i < len(all_suggestions)] *)
(***************************************************************************)
\* all_suggestions[i] with i < -len raises IndexError
SelectRaises(all_suggestions, accepted_indices) ==
    \E k \in 1..Len(accepted_indices) :
        accepted_indices[k] < -Len(all_suggestions)

\* all_suggestions[i]: a negative i counts from the end
PyIndex(all_suggestions, i) ==
    IF i >= 0 THEN all_suggestions[i + 1]
    ELSE all_suggestions[Len(all_suggestions) + i + 1]

SelectAccepted(all_suggestions, accepted_indices) ==
    LET kept == SelectSeq(accepted_indices, LAMBDA i : i < Len(all_suggestions))
    IN [k \in 1..Len(kept) |-> PyIndex(all_suggestions, kept[k])]

(***************************************************************************)
(* The requests.  A handler runs to its answer without yielding (the       *)
(* handlers are coroutines that await nothing but each other), so each is  *)
(* one step.  `el` is the time that passes while it runs.                  *)
(***************************************************************************)
Init ==
    /\ clock = 0
    /\ uploads = Empty
    /\ outputs = Empty
    /\ analysis_cache = Empty
    /\ putLog = <<>>
    /\ req = NoReq
    /\ resp = Answer("", 0, "")
    /\ modelCall = NoCall
    /\ nreq = 0
    /\ response_text = <<>>
    /\ parsed = NotRun
    /\ file_path = NoPath
    /\ max_chars_arg = 0
    /\ extracted = NotExtracted
    /\ preview = NoPreview

\* POST /api/upload
Upload(file, doc) ==
    /\ UNCHANGED extractorVars
    /\ nreq < MaxRequests
    /\ LET up == UploadProtocol(file, doc, clock, uploads) IN
       /\ req' = [NoReq EXCEPT !.op = "upload", !.at = clock, !.file = file]
       /\ uploads' = up.folder
       /\ resp' = IF up.status = 200
                  THEN [Answer("upload", 200, up.detail) EXCEPT
                           !.filename = up.filename,
                           !.text_length = Len(up.text),
                           !.preview = PreviewText(up.text, 500)]
                  ELSE Answer("upload", up.status, up.detail)
    /\ modelCall' = NoCall
    /\ response_text' = <<>>
    /\ parsed' = NotRun
    /\ nreq' = nreq + 1
    /\ UNCHANGED <<clock, outputs, analysis_cache, putLog>>

\* POST /api/analyze
Analyze(file, doc, answer, el) ==
    /\ UNCHANGED extractorVars
    /\ nreq < MaxRequests
    /\ clock + el <= MaxClock
    /\ LET up == UploadProtocol(file, doc, clock, uploads)
           \* the second extract reads the file upload_protocol saved; it
           \* succeeds whenever the first did
           ex == Extract(up.filename.name, up.folder[up.filename])
           analysis_result == AnalyzerAnalyzeProtocol(ex.text, answer)
           stored == up.status = 200 /\ ~Truthy(DictGet(analysis_result, "error", JNull))
           analysis_id == AnalysisId(up.filename, clock + el)
           record == [original_text |-> ex.text,
                      analysis |-> analysis_result,
                      filename |-> file,
                      timestamp |-> clock + el]
       IN
       \* the second reading of the clock is the one at the store
       /\ stored \/ el = 0
       /\ req' = [NoReq EXCEPT !.op = "analyze", !.at = clock, !.file = file]
       /\ uploads' = up.folder
       /\ IF up.status # 200
          THEN \* the HTTPException of upload_protocol passes through
               /\ resp' = Answer("analyze", up.status, up.detail)
               /\ modelCall' = NoCall
               /\ response_text' = <<>>
               /\ parsed' = NotRun
               /\ UNCHANGED <<analysis_cache, putLog>>
          ELSE /\ modelCall' = Called("analyze", answer.ok, <<>>, ex.text)
               /\ response_text' = answer.text
               /\ parsed' = IF answer.ok THEN ParseAnalysisResponse(answer.text)
                            ELSE NotRun
               /\ IF Truthy(DictGet(analysis_result, "error", JNull))
                  THEN /\ resp' = Answer("analyze", 500,
                                         DictGet(analysis_result, "message",
                                                 JStr("Analysis failed")).s)
                       /\ UNCHANGED <<analysis_cache, putLog>>
                  ELSE /\ analysis_cache' = Put(analysis_cache, analysis_id, record)
                       /\ putLog' = Append(putLog, [id |-> analysis_id, record |-> record])
                       /\ resp' = [Answer("analyze", 200, "") EXCEPT
                                      !.analysis_id = analysis_id,
                                      !.summary = DictGet(analysis_result, "summary", JStr("")),
                                      !.total_issues = DictGet(analysis_result, "total_issues", JNum(0)),
                                      !.suggestions = DictGet(analysis_result, "suggestions", JList(<<>>)).items]
    /\ clock' = clock + el
    /\ nreq' = nreq + 1
    /\ UNCHANGED outputs

\* The lookup answering as the missing-id check does.
AnalysisIdRequired == [status |-> 400, detail |-> "analysis_id is required"]

\* HTTPException of the failed lookup `analysis_id not in analysis_cache`
AnalysisNotFound ==
    [status |-> 404, detail |-> "Analysis not found. Please analyze the protocol again."]

\* POST /api/improve
Improve(analysis_id, accepted_indices, answer) ==
    /\ UNCHANGED extractorVars
    /\ nreq < MaxRequests
    /\ req' = [NoReq EXCEPT !.op = "improve", !.at = clock,
                            !.analysis_id = analysis_id,
                            !.accepted_indices = accepted_indices]
    /\ response_text' = <<>>
    /\ parsed' = NotRun
    /\ nreq' = nreq + 1
    /\ UNCHANGED <<clock, uploads, analysis_cache, putLog>>
    /\ IF analysis_id = NoId
       THEN /\ resp' = Answer("improve", 400, "analysis_id is required")
            /\ modelCall' = NoCall
            /\ UNCHANGED outputs
       ELSE IF analysis_id \notin DOMAIN analysis_cache
       THEN /\ resp' = Answer("improve", AnalysisNotFound.status, AnalysisNotFound.detail)
            /\ modelCall' = NoCall
            /\ UNCHANGED outputs
       ELSE LET cached == analysis_cache[analysis_id]
                original_text == cached.original_text
                all_suggestions == DictGet(cached.analysis, "suggestions", JNull).items
            IN
            IF SelectRaises(all_suggestions, accepted_indices)
            THEN \* IndexError, outside every try
                 /\ resp' = Answer("improve", 500, "Internal Server Error")
                 /\ modelCall' = NoCall
                 /\ UNCHANGED outputs
            ELSE LET accepted_suggestions == SelectAccepted(all_suggestions, accepted_indices)
                     gen == GenerateImprovedProtocol(original_text, accepted_suggestions, answer)
                     output_filename == StampedName(clock, cached.filename)
                 IN
                 IF accepted_suggestions = <<>>
                 THEN /\ resp' = [Answer("improve", 200,
                                         "No suggestions accepted, returning original protocol")
                                  EXCEPT !.improved_protocol = original_text,
                                         !.suggestions_applied = 0]
                      /\ modelCall' = NoCall
                      /\ UNCHANGED outputs
                 ELSE IF gen.raised
                 THEN /\ resp' = Answer("improve", 500, "Error generating improved protocol")
                      /\ modelCall' = gen.call
                      /\ UNCHANGED outputs
                 ELSE /\ resp' = [Answer("improve", 200, "Protocol improved successfully")
                                  EXCEPT !.improved_protocol = gen.text,
                                         !.output_filename = output_filename,
                                         !.suggestions_applied = Len(accepted_suggestions)]
                      /\ modelCall' = gen.call
                      /\ outputs' = Put(outputs, output_filename, gen.text)

\* GET /health: quick_check turns a failed call into False
HealthCheck(ok) ==
    /\ UNCHANGED extractorVars
    /\ nreq < MaxRequests
    /\ req' = [NoReq EXCEPT !.op = "health", !.at = clock]
    /\ resp' = Answer("health", 200, IF ok THEN "healthy" ELSE "degraded")
    /\ modelCall' = Called("health", ok, <<>>, <<>>)
    /\ response_text' = <<>>
    /\ parsed' = NotRun
    /\ nreq' = nreq + 1
    /\ UNCHANGED <<clock, uploads, outputs, analysis_cache, putLog>>

\* A second passes between requests.
Tick ==
    /\ UNCHANGED extractorVars
    /\ clock < MaxClock
    /\ clock' = clock + 1
    /\ UNCHANGED <<uploads, outputs, analysis_cache, putLog, req, resp,
                   modelCall, nreq, response_text, parsed>>

\* The indices a caller sends: in range, too large, and negative.
IndexValues == {-3, -1, 0, 1, 2}
AcceptedLists == UNION {[1..n -> IndexValues] : n \in 0..MaxIdxLen}

\* An id no analysis was stored under.
StaleId == AnalysisId(StampedName(0, TxtName), 0)

AnalysisModelAnswers == {ModelFailed} \cup {ModelText(t) : t \in AnalysisAnswers}
RevisionModelAnswers == {ModelFailed} \cup {ModelText(t) : t \in RevisedTexts}

Next ==
    \/ \E f \in Files : Upload(f.name, f.doc)
    \/ \E f \in Files, answer \in AnalysisModelAnswers, el \in 0..1 :
          Analyze(f.name, f.doc, answer, el)
    \/ \E id \in DOMAIN analysis_cache \cup {NoId, StaleId},
          idx \in AcceptedLists, answer \in RevisionModelAnswers :
              Improve(id, idx, answer)
    \/ \E ok \in BOOLEAN : HealthCheck(ok)
    \/ Tick

Spec == Init /\ [][Next]_vars

(***************************************************************************)
(* The parser on its own: one raw text, parsed once.                       *)
(***************************************************************************)
InitParse ==
    /\ clock = 0
    /\ uploads = Empty
    /\ outputs = Empty
    /\ analysis_cache = Empty
    /\ putLog = <<>>
    /\ req = NoReq
    /\ resp = Answer("", 0, "")
    /\ modelCall = NoCall
    /\ nreq = 0
    /\ response_text \in RawTexts
    /\ parsed = NotRun
    /\ file_path = NoPath
    /\ max_chars_arg = 0
    /\ extracted = NotExtracted
    /\ preview = NoPreview

Parse ==
    /\ UNCHANGED extractorVars
    /\ parsed = NotRun
    /\ parsed' = ParseAnalysisResponse(response_text)
    /\ UNCHANGED <<clock, uploads, outputs, analysis_cache, putLog, req, resp,
                   modelCall, nreq, response_text>>

NextParse == Parse

SpecParse == InitParse /\ [][NextParse]_vars

(***************************************************************************)
(* The extractor on its own: one file, extracted once, its text previewed  *)
(* once.                                                                   *)
(***************************************************************************)
SeqsUpTo(S, n) == UNION {[1..k -> S] : k \in 0..n}

\* What page.extract_text(), para.text and cell.text give.
PageTexts == { <<>>, <<" ", "\n">>, <<"x">>, <<"y", " ">> }
ParagraphTexts == { <<" ">>, <<"p">>, <<"q", "q">> }

PdfDocuments ==
    {[units |-> pages, cells |-> <<>>, readable |-> TRUE, size |-> 2048] :
        pages \in SeqsUpTo(PageTexts, MaxUnits)}

DocxDocuments ==
    {[units |-> paras, cells |-> cells, readable |-> TRUE, size |-> 2048] :
        paras \in SeqsUpTo(ParagraphTexts, MaxUnits),
        cells \in SeqsUpTo(ParagraphTexts, MaxCells)}

FilePaths ==
    {[name |-> PdfName, doc |-> d] : d \in PdfDocuments}
    \cup {[name |-> DocxName, doc |-> d] : d \in DocxDocuments}
    \cup {f \in Files : ~f.doc.readable \/ f.name = TxtName}

InitExtract ==
    /\ clock = 0
    /\ uploads = Empty
    /\ outputs = Empty
    /\ analysis_cache = Empty
    /\ putLog = <<>>
    /\ req = NoReq
    /\ resp = Answer("", 0, "")
    /\ modelCall = NoCall
    /\ nreq = 0
    /\ response_text = <<>>
    /\ parsed = NotRun
    /\ file_path \in FilePaths
    /\ max_chars_arg \in 0..MaxChars
    /\ extracted = NotExtracted
    /\ preview = NoPreview

\* text, metadata = text_extractor.extract(file_path)
ExtractText ==
    /\ extracted = NotExtracted
    /\ extracted' = Extract(file_path.name, file_path.doc)
    /\ UNCHANGED <<clock, uploads, outputs, analysis_cache, putLog, req, resp,
                   modelCall, nreq, response_text, parsed,
                   file_path, max_chars_arg, preview>>

\* preview = text_extractor.preview_text(text, max_chars)
Preview ==
    /\ extracted.ok
    /\ ~preview.made
    /\ preview' = [made |-> TRUE, text |-> PreviewText(extracted.text, max_chars_arg)]
    /\ UNCHANGED <<clock, uploads, outputs, analysis_cache, putLog, req, resp,
                   modelCall, nreq, response_text, parsed,
                   file_path, max_chars_arg, extracted>>

NextExtract == ExtractText \/ Preview

SpecExtract == InitExtract /\ [][NextExtract]_vars

(***************************************************************************)
(* Analyze requests alone.                                                 *)
(***************************************************************************)
NextAnalyze ==
    \/ \E f \in Files, answer \in AnalysisModelAnswers, el \in 0..1 :
          Analyze(f.name, f.doc, answer, el)
    \/ Tick

SpecAnalyze == Init /\ [][NextAnalyze]_vars

(***************************************************************************)
(* Analyze and Improve requests, the Improve requests naming any id an     *)
(* Analyze can return, stored or not, with at most one index.              *)
(***************************************************************************)
AnalyzedNames == {f.name : f \in Files}

\* Every id of the format, and the id a request leaves out or leaves empty.
RequestIds ==
    {id \in {AnalysisId(StampedName(ts, name), ts2) :
                ts \in 0..MaxClock, name \in AnalyzedNames, ts2 \in 0..MaxClock} :
        id.ts <= id.ts2}
    \cup {NoId}

LookupLists == { <<>>, <<0>> }

\* The files analyzed: one readable document of each name, and an
\* unreadable one.
LookupFiles ==
    {f \in Files : f.doc.units = << <<"x">> >> /\ f.doc.size = 2048}
    \cup {f \in Files : f.name = DocxName /\ f.doc.cells = << <<"z">> >>}

\* The model fails, answers in the full format, answers without JSON, or
\* answers with JSON cut short.
LookupAnswers ==
    {ModelFailed}
    \cup {ModelText(t) : t \in {a \in AnalysisAnswers : Len(a) <= 3 \/ a[2] = "summary"}}

NextLookup ==
    \/ \E f \in LookupFiles, answer \in LookupAnswers, el \in 0..1 :
          Analyze(f.name, f.doc, answer, el)
    \/ \E id \in RequestIds, idx \in LookupLists, answer \in RevisionModelAnswers :
          Improve(id, idx, answer)
    \/ Tick

SpecLookup == Init /\ [][NextLookup]_vars

(***************************************************************************)
(* Properties.                                                             *)
(***************************************************************************)
\* The span find('{') .. rfind('}') of a text, and whether there is one.
HasSpan(text) == Find(text, "{") # -1 /\ RFind(text, "}") + 1 > Find(text, "{")
Span(text) == Slice(text, Find(text, "{"), RFind(text, "}") + 1)
Decodes(text) == HasSpan(text) /\ JsonLoads(Span(text)).ok

\* The request answered last is an Improve that found its record.
ImproveFound == req.op = "improve" /\ req.analysis_id \in DOMAIN analysis_cache
StoredSuggestions ==
    DictGet(analysis_cache[req.analysis_id].analysis, "suggestions", JNull).items
StoredText == analysis_cache[req.analysis_id].original_text

\* The indices of the request within [0, len(suggestions)), in request order,
\* and the suggestions at them.
InRange(i) == 0 <= i /\ i < Len(StoredSuggestions)
ValidIndices == SelectSeq(req.accepted_indices, InRange)
ValidSuggestions == [k \in 1..Len(ValidIndices) |-> StoredSuggestions[ValidIndices[k] + 1]]

\* C1: no two stores of an analysis record are given the same analysis id.
C1_UniqueAnalysisIds ==
    \A i, j \in 1..Len(putLog) : i # j => putLog[i].id # putLog[j].id

\* C2: Improve keeps exactly the indices within [0, len(suggestions)): no
\* out-of-range index, too large or negative, selects a suggestion, and none
\* makes the request fail.
C2_OutOfRangeDropped ==
    ImproveFound =>
        /\ resp.detail # "Internal Server Error"
        /\ modelCall.made => modelCall.bullets = Bullets(ValidSuggestions)
        /\ resp.status = 200 => resp.suggestions_applied = Len(ValidIndices)

\* C3: parsing never throws, whatever the text, and a text whose span does
\* not decode gives a result with the error flag and the raw text.
C3_ParseNeverThrows ==
    parsed # NotRun =>
        /\ parsed.kind = "return"
        /\ (HasSpan(response_text) /\ ~Decodes(response_text)) =>
               /\ DictGet(parsed.value, "error", JNull) = JBool(TRUE)
               /\ DictGet(parsed.value, "raw_response", JNull) = JText(response_text)

\* Rank of a priority value: HIGH 0, MEDIUM 1, LOW 2, anything else 3.
RankOfPriority(p) ==
    CASE p = JStr("HIGH") -> 0
      [] p = JStr("MEDIUM") -> 1
      [] p = JStr("LOW") -> 2
      [] OTHER -> 3

\* Rank of a suggestion when one without a priority counts as "other".
RankMissingOther(x) ==
    IF DictHas(x, "priority") THEN RankOfPriority(DictGet(x, "priority", JNull)) ELSE 3

\* Rank of a suggestion when one without a priority counts as LOW.
RankMissingLow(x) ==
    IF DictHas(x, "priority") THEN RankOfPriority(DictGet(x, "priority", JNull)) ELSE 2

\* The suggestion list the parser decoded, and the one it returned.
DecodedSuggestions ==
    IF Decodes(response_text)
    THEN DictGet(JsonLoads(Span(response_text)).v, "suggestions", JList(<<>>)).items
    ELSE <<>>
ReturnedSuggestions == DictGet(parsed.value, "suggestions", JNull).items

\* A suggestion list with the rank of each suggestion beside it.
Ranked(list, ranks) == [i \in 1..Len(list) |-> [x |-> list[i], rank |-> ranks[i]]]
RankedMissingOther(list) == Ranked(list, [i \in 1..Len(list) |-> RankMissingOther(list[i])])
RankedMissingLow(list) == Ranked(list, [i \in 1..Len(list) |-> RankMissingLow(list[i])])

\* out is in sorted by rank: non-decreasing, and each rank's suggestions are
\* those of in, in the order of in (so out is a stable permutation of in).
StablySorted(rankedIn, rankedOut) ==
    /\ Len(rankedOut) = Len(rankedIn)
    /\ \A i, j \in 1..Len(rankedOut) : i < j => rankedOut[i].rank <= rankedOut[j].rank
    /\ \A r \in 0..3 :
           SelectSeq(rankedOut, LAMBDA e : e.rank = r)
               = SelectSeq(rankedIn, LAMBDA e : e.rank = r)

\* C4 as claimed: every result parse returns has its suggestions sorted
\* non-decreasing by rank {HIGH:0, MEDIUM:1, LOW:2, other:3}, equal ranks in
\* input order, a permutation of the input.
C4_SortedMissingAsOther ==
    parsed.kind = "return" =>
        StablySorted(RankedMissingOther(DecodedSuggestions),
                     RankedMissingOther(ReturnedSuggestions))

\* C4: every result parse returns has its suggestions sorted non-decreasing by
\* rank {HIGH:0, MEDIUM:1, LOW:2, other:3}, where a suggestion with no
\* priority field ranks as LOW; equal ranks keep input order and the output is
\* a permutation of the input, also when the object had every field.
C4_SortedMissingAsLow ==
    parsed.kind = "return" =>
        StablySorted(RankedMissingLow(DecodedSuggestions),
                     RankedMissingLow(ReturnedSuggestions))

\* A full object of three suggestions, one without priority, that the sort
\* had to reorder.
C4_Witness ==
    /\ parsed.kind = "return"
    /\ Decodes(response_text)
    /\ DictHas(JsonLoads(Span(response_text)).v, "summary")
    /\ DictHas(JsonLoads(Span(response_text)).v, "total_issues")
    /\ Len(ReturnedSuggestions) = 3
    /\ ReturnedSuggestions # DecodedSuggestions
    /\ \E i \in 1..3 : ~DictHas(ReturnedSuggestions[i], "priority")
    /\ \E i \in 1..3 : RankMissingLow(ReturnedSuggestions[i]) = 3

\* C5: a failed model call is never answered as a success, except by the
\* liveness check.
C5_ModelFailureSurfaced ==
    (modelCall.made /\ ~modelCall.ok /\ modelCall.purpose # "health") =>
        resp.status # 200

\* The last request is an Analyze whose model call answered.
AnalyzeAnswered == req.op = "analyze" /\ modelCall.made /\ modelCall.ok

\* C6 as claimed: when the model answers and the answer is not parseable as
\* JSON, Analyze still completes.
C6_ParseErrorNeverAborts ==
    (AnalyzeAnswered /\ ~Decodes(response_text)) => resp.status = 200

\* C6: when the model answers with a text that has no '{'..'}' span, Analyze
\* completes with the degraded result (placeholder summary, no suggestions,
\* the raw text kept in the record); when the span is there and fails to
\* decode, the parser returns an error-flagged result and Analyze fails the
\* request with that parse message; when the span decodes to an object of the
\* wrong shape, the parser raises and Analyze fails the request.
C6_NoSpanDegradesDecodeErrorFails ==
    AnalyzeAnswered =>
        /\ ~HasSpan(response_text) =>
               /\ resp.status = 200
               /\ resp.summary = JStr("Analysis completed but response format was unexpected")
               /\ resp.suggestions = <<>>
               /\ resp.analysis_id \in DOMAIN analysis_cache
               /\ DictGet(analysis_cache[resp.analysis_id].analysis, "raw_response", JNull)
                      = JText(response_text)
        /\ (HasSpan(response_text) /\ ~Decodes(response_text)) =>
               /\ resp.status = 500
               /\ resp.detail = "Could not parse analysis response"
               /\ DictGet(parsed.value, "error", JNull) = JBool(TRUE)
        /\ (Decodes(response_text) /\ parsed.kind = "raise") =>
               /\ resp.status = 500
               /\ resp.detail = "Analysis failed"

\* An Analyze that completed on a text without a span.
C6_Witness ==
    /\ AnalyzeAnswered
    /\ ~HasSpan(response_text)
    /\ response_text # <<>>
    /\ resp.status = 200

\* C7: an Improve whose indices are all out of range (or that has none)
\* answers with the stored text, zero suggestions applied, and no model call.
C7_EmptySelectionReturnsOriginal ==
    (ImproveFound /\ ValidIndices = <<>>) =>
        /\ resp.status = 200
        /\ resp.improved_protocol = StoredText
        /\ resp.suggestions_applied = 0
        /\ ~modelCall.made

\* C8: every record a successful Analyze stored is still in the store under
\* its id, with the text and the suggestions it was stored with.
C8_RecordsKept ==
    \A i \in 1..Len(putLog) :
        /\ putLog[i].id \in DOMAIN analysis_cache
        /\ analysis_cache[putLog[i].id].original_text = putLog[i].record.original_text
        /\ DictGet(analysis_cache[putLog[i].id].analysis, "suggestions", JNull)
               = DictGet(putLog[i].record.analysis, "suggestions", JNull)

\* C9: when an Upload or an Analyze that saved its file is aborted by an
\* extraction error or a model-call error, the file is gone from the upload
\* folder.
C9_UploadRemovedOnAbort ==
    (/\ req.op \in {"upload", "analyze"}
     /\ resp.status = 500
     /\ \/ resp.detail = "Error processing file"
        \/ modelCall.made /\ ~modelCall.ok) =>
        StampedName(req.at, req.file) \notin DOMAIN uploads

\* C10: an Improve with an index >= len(suggestions) and a valid index hands
\* the revision step exactly the suggestions at the valid indices, in request
\* order, and reports as many suggestions applied as indices it kept.
C10_ValidSubsetApplied ==
    (/\ ImproveFound
     /\ \E k \in 1..Len(req.accepted_indices) :
            req.accepted_indices[k] >= Len(StoredSuggestions)
     /\ ValidIndices # <<>>) =>
        /\ resp.detail # "Internal Server Error"
        /\ modelCall.made => modelCall.bullets = Bullets(ValidSuggestions)
        /\ resp.status = 200 => resp.suggestions_applied = Len(ValidIndices)

\* The step is an Improve request naming an id with no stored record.
ImproveAbsentStep ==
    /\ nreq' = nreq + 1
    /\ req'.op = "improve"
    /\ req'.analysis_id \notin DOMAIN analysis_cache

\* What every failed lookup leaves alone: no model call, no output file,
\* the store and the upload folder as they were.
NothingDone ==
    /\ ~modelCall'.made
    /\ outputs' = outputs
    /\ analysis_cache' = analysis_cache
    /\ putLog' = putLog

\* The ids successful Analyze requests returned.
ReturnedIds == {putLog[i].id : i \in 1..Len(putLog)}

\* C11 as claimed: an Improve with any id that has no stored record fails
\* with 404 and its redo-the-analysis message, calls no model, writes no
\* output file and leaves the store unchanged; an id no successful Analyze
\* returned has no record.
C11_AbsentIdNotFound ==
    /\ [](DOMAIN analysis_cache \subseteq ReturnedIds)
    /\ [][ImproveAbsentStep =>
              /\ resp'.status = 404
              /\ resp'.detail = "Analysis not found. Please analyze the protocol again."
              /\ NothingDone]_vars

\* C11: an Improve with a non-empty id that has no stored record fails with
\* 404 and its redo-the-analysis message; an Improve whose id is missing or
\* empty fails with 400 "analysis_id is required"; either way it calls no
\* model, writes no output file and leaves the store unchanged; an id no
\* successful Analyze returned has no record.
C11_AbsentIdNotFoundEmptyIdRejected ==
    /\ [](DOMAIN analysis_cache \subseteq ReturnedIds)
    /\ [][ImproveAbsentStep =>
              /\ req'.analysis_id # NoId =>
                     /\ resp'.status = 404
                     /\ resp'.detail = "Analysis not found. Please analyze the protocol again."
              /\ req'.analysis_id = NoId =>
                     /\ resp'.status = 400
                     /\ resp'.detail = "analysis_id is required"
              /\ NothingDone]_vars

\* An Improve answered 404 for an id of the format while the store holds
\* another record.
C11_Witness ==
    /\ req.op = "improve"
    /\ req.analysis_id # NoId
    /\ req.analysis_id \notin DOMAIN analysis_cache
    /\ analysis_cache # Empty
    /\ resp.status = 404

\* The parse was run on `lead`, the rendering of object v, `trail`.
ParsedEmbedded(lead, v, trail) ==
    /\ parsed # NotRun
    /\ response_text = lead \o Render(v) \o trail

\* C12 as claimed: parsing a text that holds a valid JSON object between any leading
\* and trailing prose, prose with a '{' or a '}' in it included, returns what
\* parsing the object alone returns, with the error flag unset.
C12_EmbeddedObjectRecovered ==
    \A v \in EmbeddedObjects, lead \in PlainProse \cup BraceProse,
       trail \in PlainProse \cup BraceProse :
        ParsedEmbedded(lead, v, trail) =>
            /\ parsed.kind = "return"
            /\ ~Truthy(DictGet(parsed.value, "error", JNull))
            /\ parsed = ParseAnalysisResponse(Render(v))

Has(text, tok) == \E i \in 1..Len(text) : text[i] = tok

\* C12: parsing a text that holds a valid JSON object of the response format
\* between leading prose without '{' and trailing prose without '}' returns
\* what parsing the object alone returns, with the error flag unset; with a
\* '{' in the leading prose or a '}' in the trailing prose the span from the
\* first '{' to the last '}' is more than the object, it does not decode, and
\* the result carries error = true and the raw text.
C12_EmbeddedObjectRecoveredFromBraceFreeProse ==
    \A v \in EmbeddedObjects, lead \in PlainProse \cup BraceProse,
       trail \in PlainProse \cup BraceProse :
        ParsedEmbedded(lead, v, trail) =>
            IF ~Has(lead, "{") /\ ~Has(trail, "}")
            THEN /\ parsed.kind = "return"
                 /\ ~Truthy(DictGet(parsed.value, "error", JNull))
                 /\ parsed = ParseAnalysisResponse(Render(v))
            ELSE /\ parsed.kind = "return"
                 /\ DictGet(parsed.value, "error", JNull) = JBool(TRUE)
                 /\ DictGet(parsed.value, "raw_response", JNull) = JText(response_text)

\* A one-suggestion object parsed out of prose on both sides.
C12_Witness ==
    \E v \in EmbeddedObjects :
        /\ ParsedEmbedded(<<"w", "w">>, v, <<"w">>)
        /\ Len(DictGet(v, "suggestions", JNull).items) = 1
        /\ parsed.kind = "return"
        /\ Len(DictGet(parsed.value, "suggestions", JNull).items) = 1

\* A '{' with a '}' somewhere after it.
BracePair(text) ==
    \E i \in 1..Len(text), j \in 1..Len(text) :
        i < j /\ text[i] = "{" /\ text[j] = "}"

\* C13: parsing a text with no '{' .. '}' span (no '{', no '}', or every '}'
\* before the first '{') returns a result with no suggestions, the placeholder
\* summary, no error flag and the raw text as it was; parsing a text whose
\* span does not decode returns a result with error = true and the raw text
\* as it was.
C13_NoSpanPlaceholderDecodeErrorFlagged ==
    parsed # NotRun =>
        /\ ~BracePair(response_text) =>
               /\ parsed.kind = "return"
               /\ DictGet(parsed.value, "suggestions", JNull) = JList(<<>>)
               /\ DictGet(parsed.value, "summary", JNull)
                      = JStr("Analysis completed but response format was unexpected")
               /\ ~Truthy(DictGet(parsed.value, "error", JNull))
               /\ DictGet(parsed.value, "raw_response", JNull) = JText(response_text)
        /\ (BracePair(response_text) /\ ~JsonLoads(Span(response_text)).ok) =>
               /\ parsed.kind = "return"
               /\ DictGet(parsed.value, "error", JNull) = JBool(TRUE)
               /\ DictGet(parsed.value, "raw_response", JNull) = JText(response_text)

\* A text whose only '}' comes before its only '{', parsed.
C13_Witness ==
    /\ response_text = <<"}", "w", "{">>
    /\ parsed.kind = "return"
    /\ DictGet(parsed.value, "raw_response", JNull) = JText(response_text)

\* The pages, or paragraphs and table cells, of the file extracted, and
\* whether one of them has a character that trimming keeps.
UnitsOf(fp) == fp.doc.units \o fp.doc.cells
NonEmptyTrimmed(text) == \E i \in 1..Len(text) : text[i] \notin {" ", "\n"}
SomeUnitNonEmpty(fp) == \E u \in 1..Len(UnitsOf(fp)) : NonEmptyTrimmed(UnitsOf(fp)[u])

\* C14: extracting a document whose pages, paragraphs and table cells are all
\* empty after trimming fails; extracting a parsable PDF or Word document
\* with a non-empty unit succeeds with non-empty text; the preview of the
\* text is the text itself when max_chars >= len(text), and otherwise its
\* first max_chars characters followed by "...".
C14_ExtractAndPreview ==
    /\ extracted # NotExtracted =>
           /\ ~SomeUnitNonEmpty(file_path) => ~extracted.ok
           /\ (/\ SomeUnitNonEmpty(file_path)
               /\ file_path.doc.readable
               /\ Lower(file_path.name.ext) \in ALLOWED_EXTENSIONS) =>
                  /\ extracted.ok
                  /\ NonEmptyTrimmed(extracted.text)
    /\ preview.made =>
           /\ max_chars_arg >= Len(extracted.text) => preview.text = extracted.text
           /\ max_chars_arg < Len(extracted.text) =>
                  /\ Len(preview.text) = max_chars_arg + 3
                  /\ \A i \in 1..max_chars_arg : preview.text[i] = extracted.text[i]
                  /\ \A i \in 1..3 : preview.text[max_chars_arg + i] = "."

\* A Word document with blank paragraphs and a non-empty table cell,
\* extracted and previewed at exactly the length of its text.
C14_Witness ==
    /\ Lower(file_path.name.ext) = ".docx"
    /\ file_path.doc.units # <<>>
    /\ \A u \in 1..Len(file_path.doc.units) : ~NonEmptyTrimmed(file_path.doc.units[u])
    /\ extracted.ok
    /\ preview.made
    /\ max_chars_arg = Len(extracted.text)
    /\ preview.text = extracted.text

\* The last run extracted a parsable PDF; its pages.
PdfExtracted ==
    /\ extracted # NotExtracted
    /\ Lower(file_path.name.ext) = ".pdf"
    /\ file_path.doc.readable
Pages == file_path.doc.units
NonEmptyPages == {k \in 1..Len(Pages) : NonEmptyTrimmed(Pages[k])}

\* Where "Page k" stands in a text.
PageLabel(k) == <<"P", "a", "g", "e", " ", ToString(k)>>
LabelPositions(text, k) ==
    {p \in 1..Len(text) :
        p + 5 <= Len(text) /\ SubSeq(text, p, p + 5) = PageLabel(k)}

\* The text of page k stands after the label of page k, the rest of the
\* marker line and the line break that joins the parts.
PageTextAfterLabel(text, k, p) ==
    /\ p + 5 + 5 + Len(Pages[k]) <= Len(text)
    /\ SubSeq(text, p + 6, p + 10) = <<" ", "-", "-", "-", "\n">>
    /\ text[p + 11] = "\n"
    /\ SubSeq(text, p + 12, p + 11 + Len(Pages[k])) = Pages[k]

RECURSIVE SumLen(_, _)
SumLen(S, extra) ==
    IF S = {} THEN 0
    ELSE LET k == CHOOSE x \in S : TRUE
         IN Len(Pages[k]) + extra + SumLen(S \ {k}, extra)

\* C15: the text extracted from a PDF holds the marker "Page k" followed by
\* the text of page k for exactly the pages k whose text is non-empty after
\* trimming, numbered by their position in the document and in page order,
\* and nothing for the other pages; empty pages among them do not fail the
\* extraction.
C15_MarkersForNonEmptyPages ==
    PdfExtracted =>
        /\ extracted.ok <=> NonEmptyPages # {}
        /\ extracted.ok =>
               /\ \A k \in 1..Len(Pages) :
                      IF k \in NonEmptyPages
                      THEN \E p \in LabelPositions(extracted.text, k) :
                               /\ LabelPositions(extracted.text, k) = {p}
                               /\ PageTextAfterLabel(extracted.text, k, p)
                      ELSE LabelPositions(extracted.text, k) = {}
               /\ \A k1 \in NonEmptyPages, k2 \in NonEmptyPages :
                      k1 < k2 =>
                          \A p1 \in LabelPositions(extracted.text, k1),
                             p2 \in LabelPositions(extracted.text, k2) : p1 < p2
               \* 16 characters of marker, a line break and the page; a line
               \* break between one page and the next
               /\ Len(extracted.text) = SumLen(NonEmptyPages, 18) - 1

\* A PDF of three pages with text on pages 1 and 3 only, extracted.
C15_Witness ==
    /\ PdfExtracted
    /\ Len(Pages) = 3
    /\ NonEmptyPages = {1, 3}
    /\ extracted.ok
    /\ LabelPositions(extracted.text, 1) # {}
    /\ LabelPositions(extracted.text, 2) = {}
    /\ LabelPositions(extracted.text, 3) # {}

====
